---- MODULE Spec2Model ----
(***************************************************************************)
(* A model of the four Autosys log scripts:                                *)
(*   autosys-logs.py              ("plain")                                *)
(*   autosys-logs-python-auth.py  ("auth")                                 *)
(*   autosys-system-logs.py       ("system")                               *)
(*   autosys-minimal-system-logs.py ("minimal")                            *)
(*                                                                         *)
(* Text is a sequence of tokens.  A token is either one character or one   *)
(* whole label ("std_out_file:", "job_dir:", ...): no token but the space   *)
(* and the new line holds white space and no label is a substring of       *)
(* another token, so a regular expression that searches for a literal      *)
(* label finds it exactly at the positions holding that token ("Last Run:" *)
(* is the three tokens Last, space, Run:).  Python's None is the one-token *)
(* sequence None, which no text contains; the empty string is <<>>.        *)
(***************************************************************************)
EXTENDS Integers, Sequences, FiniteSets, TLC

VARIABLES
  script,    \* which of the four scripts runs
  args,      \* its command line: sys.argv[1:] or the argparse namespace
  pc,        \* where the run is: "start", "creds", "details", "logs_out",
             \* "logs_err", "sys_logs", "sys_report", "min_logs", "exit"
  job,       \* job_name of main, None until the command line is accepted
  creds,     \* username, password, instance, server of AutosysLogRetriever
  output,    \* result.stdout of the first autorep command, None before it
             \* has run and when it failed
  details,   \* job_details, NoDetails until get_job_details returns
  fsOut,     \* what get_job_logs found at the stdout path
  fsErr,     \* what get_job_logs found at the stderr path
  logsData,  \* the dict get_system_logs returns
  metadata,  \* the dict extract_job_metadata returns
  trace,     \* the prompts, commands and printed blocks so far, in order
  exitCode   \* the exit status of the process, -1 while it runs

vars == <<script, args, pc, job, creds, output, details, fsOut, fsErr,
          logsData, metadata, trace, exitCode>>

(***************************************************************************)
(* Bounds of the model.                                                    *)
(***************************************************************************)
\* longest autorep report in the whole-run specification Spec
MaxOut == 2
\* longest autorep report in SpecParse (get_job_details as a function)
MaxLen == 5
\* longest autorep report in SpecLogs (get_job_details + get_job_logs)
MaxLogLen == 4
\* longest job-info text in SpecMeta (extract_job_metadata)
MaxMeta == 4

(***************************************************************************)
(* Tokens.                                                                 *)
(***************************************************************************)
None == <<"None">>
SO == "std_out_file:"
SE == "std_err_file:"
JD == "job_dir:"
ST == "Status/Event:"
SP == " "
NL == "\n"

\* \s of the re module, among the tokens used
Space == {SP, NL}
\* tokens made of \w characters only
WordChars == {"a", "j", "Last"}
\* \d
DigitChars == {"1"}

IsSpace(t) == t \in Space

\* Python truthiness of an optional string: None and "" are falsy
Truthy(x) == x # None /\ x # <<>>

\* the leading \w characters of a token, as a sequence of at most one piece
WordHead(t) ==
  CASE t \in WordChars \cup DigitChars -> <<t>>
    [] t = SO -> <<"std_out_file">>
    [] t = SE -> <<"std_err_file">>
    [] t = JD -> <<"job_dir">>
    [] t = ST -> <<"Status">>
    [] t = "Run:" -> <<"Run">>
    [] t = "machine:" -> <<"machine">>
    [] t = "command:" -> <<"command">>
    [] t = "condition:" -> <<"condition">>
    [] OTHER -> <<>>

\* all texts over an alphabet, up to a length
TextsOver(alphabet, n) == UNION {[1..k -> alphabet] : k \in 0..n}

(***************************************************************************)
(* Regular expression matching, as re.search performs it.                  *)
(***************************************************************************)
\* index after the longest run of tokens of class C that starts at k
RECURSIVE RunEnd(_, _, _)
RunEnd(text, k, C) ==
  IF k <= Len(text) /\ text[k] \in C THEN RunEnd(text, k + 1, C) ELSE k

\* index after the longest run of tokens outside class C that starts at k
RECURSIVE RunEndNot(_, _, _)
RunEndNot(text, k, C) ==
  IF k <= Len(text) /\ text[k] \notin C THEN RunEndNot(text, k + 1, C) ELSE k

\* positions of a label in a text
Occurrences(text, label) == {i \in 1..Len(text) : text[i] = label}

Min(S) == CHOOSE x \in S : \A y \in S : x <= y

\* re.search(r"<label>\s*(.*?)(?:\s+|$)", text).group(1), None when no match.
\* The search stops at the first occurrence of the label: \s* (greedy) takes
\* every white space character that follows, new lines included; the lazy
\* group then grows over the characters that follow (never a new line, "."
\* does not match one, nor any other white space, since the match ends as
\* soon as white space or the end of the text follows).
LabelSearch(text, label) ==
  IF Occurrences(text, label) = {} THEN None
  ELSE LET i == Min(Occurrences(text, label))
           k == RunEnd(text, i + 1, Space)
       IN  SubSeq(text, k, RunEndNot(text, k, Space) - 1)

\* (\w+) from position k: the word tokens from k on, and the leading word
\* characters of the token that ends the run; <<>> when \w+ cannot match
RECURSIVE WordRun(_, _)
WordRun(text, k) ==
  IF k > Len(text) THEN <<>>
  ELSE IF text[k] \in WordChars \cup DigitChars
       THEN <<text[k]>> \o WordRun(text, k + 1)
       ELSE WordHead(text[k])

\* where the value starts when the label is at i, 0 when the pattern does
\* not match there: plain has one literal space after the label, auth \s+
ValueStart(text, i, auth) ==
  IF auth
  THEN IF i < Len(text) /\ IsSpace(text[i + 1])
       THEN RunEnd(text, i + 1, Space) ELSE 0
  ELSE IF i < Len(text) /\ text[i + 1] = SP THEN i + 2 ELSE 0

\* re.search(r"Status/Event: (\w+)") of autosys-logs.py, and
\* STATUS_PATTERN = r"Status/Event:\s+(\w+)" of the authenticated script
StatusSearch(text, auth) ==
  LET hits == {i \in Occurrences(text, ST) :
                 /\ ValueStart(text, i, auth) # 0
                 /\ WordRun(text, ValueStart(text, i, auth)) # <<>>}
  IN  IF hits = {} THEN None
      ELSE WordRun(text, ValueStart(text, Min(hits), auth))

\* positions where the literal "Last Run:" starts: the tokens Last, a
\* space, Run:
LastRunAt(text) ==
  {i \in 1..Len(text) - 2 :
     text[i] = "Last" /\ text[i + 1] = SP /\ text[i + 2] = "Run:"}

\* re.search(r"Last Run: ([\d\/]+\s+[\d:]+)") and its \s+ form in the
\* authenticated script: a date run, white space, a time run
LastRunSearch(text, auth) ==
  LET EndOf(i) ==
        LET k  == ValueStart(text, i + 2, auth)
            e1 == RunEnd(text, k, DigitChars \cup {"/"})
            e2 == RunEnd(text, e1, Space)
            e3 == RunEnd(text, e2, DigitChars \cup {":"})
        IN  IF k # 0 /\ e1 > k /\ e2 > e1 /\ e3 > e2 THEN e3 ELSE 0
      hits == {i \in LastRunAt(text) : EndOf(i) # 0}
  IN  IF hits = {} THEN None
      ELSE SubSeq(text, ValueStart(text, Min(hits) + 2, auth),
                  EndOf(Min(hits)) - 1)

\* str.strip()
RECURSIVE Strip(_)
Strip(s) ==
  IF s = <<>> THEN s
  ELSE IF IsSpace(s[1]) THEN Strip(Tail(s))
  ELSE IF IsSpace(s[Len(s)]) THEN Strip(SubSeq(s, 1, Len(s) - 1))
  ELSE s

\* os.path.join(a, b) on POSIX
PathJoin(a, b) ==
  IF b # <<>> /\ b[1] = "/" THEN b
  ELSE IF a = <<>> \/ a[Len(a)] = "/" THEN a \o b
  ELSE a \o <<"/">> \o b

(***************************************************************************)
(* get_job_details: the extraction and the path derivation.                *)
(***************************************************************************)
NoDetails ==
  [job_name |-> None, status |-> None, last_run |-> None,
   std_out_file |-> None, std_err_file |-> None]

\* "if m and m.group(1)": the capture when it is non-empty, else the field
\* keeps its None; the authenticated script strips the capture
Explicit(text, label, auth) ==
  LET m == LabelSearch(text, label)
  IN  IF Truthy(m) THEN (IF auth THEN Strip(m) ELSE m) ELSE None

\* the second half of get_job_details: derive what is still missing from
\* job_dir, when job_dir matches
DerivePathsBoth(job_name, text, auth, out, err) ==
  LET m == LabelSearch(text, JD)
      log_dir == IF auth THEN Strip(m) ELSE m
  IN  IF (~Truthy(out) \/ ~Truthy(err)) /\ m # None
      THEN [out |-> PathJoin(log_dir, job_name \o <<".out">>),
            err |-> PathJoin(log_dir, job_name \o <<".err">>)]
      ELSE [out |-> out, err |-> err]

DerivePaths(job_name, text, auth, out, err) ==
  LET m == LabelSearch(text, JD)
      log_dir == IF auth THEN Strip(m) ELSE m
  IN  IF (~Truthy(out) \/ ~Truthy(err)) /\ m # None
      THEN [out |-> IF ~Truthy(out)
                    THEN PathJoin(log_dir, job_name \o <<".out">>) ELSE out,
            err |-> IF ~Truthy(err)
                    THEN PathJoin(log_dir, job_name \o <<".err">>) ELSE err]
      ELSE [out |-> out, err |-> err]

get_job_details(job_name, text, auth) ==
  LET p == DerivePaths(job_name, text, auth,
                       Explicit(text, SO, auth), Explicit(text, SE, auth))
  IN  [job_name |-> job_name,
       status |-> StatusSearch(text, auth),
       last_run |-> LastRunSearch(text, auth),
       std_out_file |-> p.out,
       std_err_file |-> p.err]

(***************************************************************************)
(* extract_job_metadata of autosys-system-logs.py.                         *)
(***************************************************************************)
\* the allow-list, each attribute with the label the pattern searches for
AttrLabel ==
  [machine |-> "machine:", box_name |-> "box_name:", command |-> "command:",
   condition |-> "condition:", date_conditions |-> "date_conditions:",
   days_of_week |-> "days_of_week:", start_times |-> "start_times:",
   job_type |-> "job_type:", priority |-> "priority:",
   max_run_alarm |-> "max_run_alarm:", alarm_if_fail |-> "alarm_if_fail:"]

attributes == DOMAIN AttrLabel

\* the mapping: an entry for every attribute whose pattern matches, with
\* group(1) as its value whatever it is (an empty capture included)
extract_job_metadata(job_info) ==
  IF ~Truthy(job_info) THEN [a \in {} |-> <<>>]
  ELSE [a \in {b \in attributes : LabelSearch(job_info, AttrLabel[b]) # None}
          |-> LabelSearch(job_info, AttrLabel[a])]

(***************************************************************************)
(* The run of a script.  trace is what the run has done so far, in order:  *)
(* the prompts it issued, the external commands it invoked and the blocks  *)
(* it printed.                                                             *)
(***************************************************************************)
Ev(kind, tag, stream, data) ==
  [kind |-> kind, tag |-> tag, stream |-> stream, data |-> data]
Call(prog, stream, argv) == Ev("call", prog, stream, argv)
Out(tag, stream, data) == Ev("print", tag, stream, data)
Prompt(tag) == Ev("prompt", tag, "-", <<>>)

Scripts == {"plain", "auth", "system", "minimal"}

J == <<"j">>
\* what input() or getpass() returns; Eof stands for the EOFError they raise
Replies == {<<>>, <<"p">>}
Eof == <<"EOF">>
\* the values of --run: absent, 0 and 1
Runs == {None, <<"0">>, <<"1">>}
\* "if run_number:"
RunTruthy(r) == r # None /\ r # <<"0">>

NoArgs ==
  [argv |-> <<>>, job_name |-> None, job_name_positional |-> None,
   username |-> None, password |-> None, instance |-> None, server |-> None,
   run |-> None, format |-> "json", pretty |-> FALSE]

NoCreds ==
  [username |-> None, password |-> None, instance |-> None, server |-> None]

NoLogs ==
  [job_info |-> None, system_logs |-> None, run_details |-> None,
   status_history |-> None]

NoMetadata == [a \in {} |-> <<>>]

\* the command lines of each script: sys.argv[1:] for the plain script, the
\* argparse namespace for the others
CommandLines(s) ==
  CASE s = "plain" ->
         {[NoArgs EXCEPT !.argv = a] : a \in {<<>>, << <<>> >>, <<J>>, <<J, J>>}}
    [] s = "auth" ->
         {[NoArgs EXCEPT !.job_name = j, !.job_name_positional = p,
                         !.username = u, !.password = w, !.instance = i,
                         !.server = v] :
            j \in {None, <<>>, J}, p \in {None, J},
            u \in {None, <<>>, <<"u">>}, w \in {None, <<>>, <<"p">>},
            i \in {None, <<"i">>}, v \in {None, <<"s">>}}
    [] s = "system" ->
         {[NoArgs EXCEPT !.job_name = j, !.run = r, !.format = f] :
            j \in {None, <<>>, J}, r \in Runs, f \in {"json", "text"}}
    [] s = "minimal" ->
         {[NoArgs EXCEPT !.job_name = j, !.run = r, !.pretty = b] :
            j \in {None, <<>>, J}, r \in Runs, b \in BOOLEAN}

Start(s, a) ==
  /\ script = s
  /\ args = a
  /\ pc = "start"
  /\ job = None
  /\ creds = NoCreds
  /\ output = None
  /\ details = NoDetails
  /\ fsOut = "unchecked"
  /\ fsErr = "unchecked"
  /\ logsData = NoLogs
  /\ metadata = NoMetadata
  /\ trace = <<>>
  /\ exitCode = -1

Init == \E s \in Scripts : \E a \in CommandLines(s) : Start(s, a)

(***************************************************************************)
(* autosys-logs.py: main.                                                  *)
(***************************************************************************)
PlainMain ==
  /\ script = "plain"
  /\ pc = "start"
  /\ IF Len(args.argv) # 1
     THEN /\ trace' = Append(trace, Out("usage", "-", <<>>))
          /\ exitCode' = 1
          /\ pc' = "exit"
          /\ job' = job
     ELSE /\ job' = args.argv[1]
          /\ trace' = Append(trace, Out("retrieving", "-", <<args.argv[1]>>))
          /\ pc' = "details"
          /\ exitCode' = exitCode
  /\ UNCHANGED <<script, args, creds, output, details, fsOut, fsErr,
                 logsData, metadata>>

(***************************************************************************)
(* autosys-logs-python-auth.py: parse_arguments and main.                  *)
(***************************************************************************)
\* args.job_name after "use positional job name if -j/--job not provided"
\* (parser.error() prints the usage and exits with status 2)
parse_arguments(a) ==
  IF ~Truthy(a.job_name) /\ Truthy(a.job_name_positional)
  THEN a.job_name_positional ELSE a.job_name

AuthParse ==
  /\ script = "auth"
  /\ pc = "start"
  /\ IF ~Truthy(parse_arguments(args))
     THEN /\ trace' = Append(trace, Out("usage", "-", <<>>))
          /\ exitCode' = 2
          /\ pc' = "exit"
          /\ job' = job
     ELSE /\ job' = parse_arguments(args)
          /\ trace' = Append(trace,
                             Out("banner", "-", <<parse_arguments(args)>>))
          /\ pc' = "creds"
          /\ exitCode' = exitCode
  /\ UNCHANGED <<script, args, creds, output, details, fsOut, fsErr,
                 logsData, metadata>>

\* "if username and not password" / "if username and not instance"
NeedsPromptWhenAbsent(username, value) == username # None /\ value = None

NeedsPrompt(username, value) == Truthy(username) /\ ~Truthy(value)

\* main, lines 305-315: the two prompts.  An EOFError of getpass() or
\* input() is raised outside main's try block and ends the process with
\* status 1.
AuthCreds ==
  /\ script = "auth"
  /\ pc = "creds"
  /\ LET askPw == NeedsPrompt(args.username, args.password)
     IN  \E pw \in (IF askPw THEN Replies \cup {Eof} ELSE {args.password}) :
           LET askInst == pw # Eof /\ NeedsPrompt(args.username, args.instance)
           IN  \E inst \in (IF askInst THEN Replies \cup {Eof}
                            ELSE {args.instance}) :
                 /\ trace' = trace
                      \o (IF askPw THEN <<Prompt("password")>> ELSE <<>>)
                      \o (IF askInst THEN <<Prompt("instance")>> ELSE <<>>)
                 /\ IF pw = Eof \/ inst = Eof
                    THEN /\ pc' = "exit"
                         /\ exitCode' = 1
                         /\ creds' = creds
                    ELSE /\ creds' = [username |-> args.username,
                                      password |-> pw, instance |-> inst,
                                      server |-> args.server]
                         /\ pc' = "details"
                         /\ exitCode' = exitCode
  /\ UNCHANGED <<script, args, job, output, details, fsOut, fsErr,
                 logsData, metadata>>

\* the credential flags appended to every command of the authenticated
\* script; the plain script has no credentials and appends nothing
AuthFlags(c) ==
     (IF Truthy(c.username) THEN << <<"-u">>, c.username >> ELSE <<>>)
  \o (IF Truthy(c.password) THEN << <<"-p">>, c.password >> ELSE <<>>)
  \o (IF Truthy(c.instance) THEN << <<"-i">>, c.instance >> ELSE <<>>)
  \o (IF Truthy(c.server) THEN << <<"-s">>, c.server >> ELSE <<>>)

(***************************************************************************)
(* get_job_details of both scripts: the autorep call and what follows it.  *)
(* rc is how the command ends: "ok" (exit 0, report text on stdout),       *)
(* "nonzero" (CalledProcessError) or "exception" (any other exception, as  *)
(* when the program cannot be started).  The plain script exits with 1 in  *)
(* its handlers; the authenticated one re-raises and main returns 1.       *)
(***************************************************************************)
\* where a failed autorep call leaves the run: sys.exit(1) in the handlers
\* of the plain script, "raise" and main's "return 1" in the other
AfterFailureContinue == [pc |-> "logs_out", exitCode |-> -1]

AfterFailure == [pc |-> "exit", exitCode |-> 1]

GetJobDetailsOn(T) ==
  /\ script \in {"plain", "auth"}
  /\ pc = "details"
  /\ \E rc \in {"ok", "nonzero", "exception"} :
       \E text \in (IF rc = "ok" THEN T ELSE {None}) :
         LET call == Call("autorep", "-",
                          << <<"autorep">>, <<"-j">>, job, <<"-L">> >>
                          \o AuthFlags(creds))
         IN  /\ output' = text
             /\ IF rc = "ok"
                THEN /\ details' = get_job_details(job, text, script = "auth")
                     /\ trace' = Append(trace, call)
                     /\ pc' = "logs_out"
                     /\ exitCode' = exitCode
                ELSE /\ details' = details
                     /\ trace' = trace
                          \o <<call,
                               Out(IF rc = "nonzero" THEN "error_retrieving"
                                     ELSE "unexpected_error", "-", <<>>)>>
                          \o (IF script = "auth"
                              THEN <<Out("error", "-", <<>>)>> ELSE <<>>)
                     /\ pc' = AfterFailure.pc
                     /\ exitCode' = AfterFailure.exitCode
  /\ UNCHANGED <<script, args, job, creds, fsOut, fsErr, logsData, metadata>>

(***************************************************************************)
(* get_job_logs of both scripts.                                           *)
(***************************************************************************)
\* what os.path.exists() and the read find at a path
FsStates == {"missing", "readable", "unreadable"}
\* how the autosyslog command ends
Outcomes == {"ok", "nonzero", "exception"}

StreamFlag(s) == IF s = "stdout" THEN <<"-o">> ELSE <<"-e">>

\* the fallback: retrieve_log_via_autosys of the authenticated script
\* (stdout captured and printed; a CalledProcessError handled inside, any
\* other exception left to the caller's "except Exception"), and the inline
\* subprocess.run(cmd, check=True) of the plain script, whose child writes
\* to the terminal itself
retrieve_log_via_autosys(s, rc) ==
  <<Call("autosyslog", s,
         << <<"autosyslog">>, <<"-j">>, details.job_name, StreamFlag(s) >>
         \o AuthFlags(creds))>>
  \o (IF script = "auth"
      THEN CASE rc = "ok" -> <<Out("fallback_output", s, <<>>)>>
             [] rc = "nonzero" -> <<Out("error_running_autosyslog", s, <<>>)>>
             [] OTHER -> <<Out("error_accessing", s, <<>>)>>
      ELSE CASE rc = "ok" -> <<Ev("child", "fallback_output", s, <<>>)>>
             [] OTHER -> <<Out("error_accessing", s, <<>>)>>)

\* one "Handle stdout file" / "Handle stderr file" block: path is the
\* stream's entry of job_details, f what the filesystem holds at that path
\* and rc how the fallback command ends when it is run
HandleStreamFallbackOnError(s, path, f, rc) ==
  IF ~Truthy(path) THEN <<Out("not_available", s, <<>>)>>
  ELSE <<Out("section", s, <<path>>)>>
       \o CASE f = "readable" -> <<Out("content", s, <<path>>)>>
            [] OTHER -> <<Out("direct_access_failed", s, <<>>)>>
                        \o retrieve_log_via_autosys(s, rc)

HandleStreamFallbackUnset(s, path, f, rc) ==
  IF ~Truthy(path)
  THEN <<Out("not_available", s, <<>>)>> \o retrieve_log_via_autosys(s, rc)
  ELSE <<Out("section", s, <<path>>)>>
       \o CASE f = "readable" -> <<Out("content", s, <<path>>)>>
            [] f = "unreadable" -> <<Out("error_accessing", s, <<>>)>>
            [] OTHER -> <<Out("direct_access_failed", s, <<>>)>>
                        \o retrieve_log_via_autosys(s, rc)

HandleStream(s, path, f, rc) ==
  IF ~Truthy(path) THEN <<Out("not_available", s, <<>>)>>
  ELSE <<Out("section", s, <<path>>)>>
       \o CASE f = "readable" -> <<Out("content", s, <<path>>)>>
            [] f = "unreadable" -> <<Out("error_accessing", s, <<>>)>>
            [] OTHER -> <<Out("direct_access_failed", s, <<>>)>>
                        \o retrieve_log_via_autosys(s, rc)

\* where the stdout block leaves the run.  Its "except Exception" prints
\* the error of a failed read or a failed fallback and control falls
\* through to the stderr block, as it does after a read or a fallback that
\* succeeded; without the handler the exception would leave get_job_logs
\* and end the process with status 1
AfterStdoutPropagate(f, rc) ==
  IF f = "unreadable" \/ rc \in {"nonzero", "exception"}
  THEN [pc |-> "exit", exitCode |-> 1]
  ELSE [pc |-> "logs_err", exitCode |-> -1]

AfterStdout(f, rc) == [pc |-> "logs_err", exitCode |-> -1]

\* the header and the stdout block
HandleStdout ==
  /\ script \in {"plain", "auth"}
  /\ pc = "logs_out"
  /\ \E f \in (IF Truthy(details.std_out_file) THEN FsStates
               ELSE {"unchecked"}) :
       \E rc \in (IF f = "missing" THEN Outcomes ELSE {"none"}) :
         /\ fsOut' = f
         /\ trace' = trace
              \o <<Out("header", "-",
                       <<details.job_name, details.status, details.last_run>>)>>
              \o HandleStream("stdout", details.std_out_file, f, rc)
         /\ pc' = AfterStdout(f, rc).pc
         /\ exitCode' = AfterStdout(f, rc).exitCode
  /\ UNCHANGED <<script, args, job, creds, output, details, fsErr,
                 logsData, metadata>>

\* the stderr block, the cleanup and the return to main, which ends the
\* process with status 0
HandleStderr ==
  /\ script \in {"plain", "auth"}
  /\ pc = "logs_err"
  /\ \E f \in (IF Truthy(details.std_err_file) THEN FsStates
               ELSE {"unchecked"}) :
       \E rc \in (IF f = "missing" THEN Outcomes ELSE {"none"}) :
         /\ fsErr' = f
         /\ trace' = trace
              \o HandleStream("stderr", details.std_err_file, f, rc)
  /\ pc' = "exit"
  /\ exitCode' = 0
  /\ UNCHANGED <<script, args, job, creds, output, details, fsOut,
                 logsData, metadata>>

(***************************************************************************)
(* autosys-system-logs.py and autosys-minimal-system-logs.py.              *)
(***************************************************************************)
\* run_command: the call, and the two error lines when the command exits
\* non-zero; r is what run_command returns (None on failure)
run_command(cmd, r) ==
  <<Call("sh", "-", <<cmd>>)>>
  \o (IF r = None THEN <<Out("error_running_command", "-", <<>>)>> ELSE <<>>)

\* what a successful command may have written, already stripped
LogTexts == {<<"text">>}

\* argparse with --job required: a missing --job ends the process with
\* status 2, an empty one is accepted
SysParse ==
  /\ script = "system"
  /\ pc = "start"
  /\ IF args.job_name = None
     THEN /\ trace' = Append(trace, Out("usage", "-", <<>>))
          /\ exitCode' = 2
          /\ pc' = "exit"
          /\ job' = job
     ELSE /\ job' = args.job_name
          /\ trace' = trace
          /\ pc' = "sys_logs"
          /\ exitCode' = exitCode
  /\ UNCHANGED <<script, args, creds, output, details, fsOut, fsErr,
                 logsData, metadata>>

\* get_system_logs: four commands, each of which may fail
SysGetLogsOn(T) ==
  /\ script = "system"
  /\ pc = "sys_logs"
  /\ \E ji \in T \cup {None} :
       \E sl \in LogTexts \cup {None} :
         \E rd \in LogTexts \cup {None} :
           \E sh \in LogTexts \cup {None} :
             LET info == IF ji = None THEN None ELSE Strip(ji)
                 r == IF RunTruthy(args.run)
                      THEN <<" -r ">> \o args.run ELSE <<>>
             IN  /\ output' = ji
                 /\ logsData' = [job_info |-> info, system_logs |-> sl,
                                 run_details |-> rd, status_history |-> sh]
                 /\ trace' = trace
                      \o run_command(<<"autorep -j ">> \o job \o <<" -q">>, info)
                      \o run_command(<<"autosyslog -j ">> \o job \o r, sl)
                      \o run_command(<<"autorep -j ">> \o job
                                       \o (IF r = <<>> THEN <<" -l">> ELSE r), rd)
                      \o run_command(<<"autorep -j ">> \o job \o <<" -s">>, sh)
  /\ pc' = "sys_report"
  /\ UNCHANGED <<script, args, job, creds, details, fsOut, fsErr, metadata,
                 exitCode>>

\* main, lines 102-132: the metadata and the report, in either format
SysReport ==
  /\ script = "system"
  /\ pc = "sys_report"
  /\ metadata' = extract_job_metadata(logsData.job_info)
  /\ trace' = Append(trace,
                     Out(IF args.format = "json" THEN "json" ELSE "text_report",
                         "-", <<job, args.run>>))
  /\ pc' = "exit"
  /\ exitCode' = 0
  /\ UNCHANGED <<script, args, job, creds, output, details, fsOut, fsErr,
                 logsData>>

MinParse ==
  /\ script = "minimal"
  /\ pc = "start"
  /\ IF args.job_name = None
     THEN /\ trace' = Append(trace, Out("usage", "-", <<>>))
          /\ exitCode' = 2
          /\ pc' = "exit"
          /\ job' = job
     ELSE /\ job' = args.job_name
          /\ trace' = trace
          /\ pc' = "min_logs"
          /\ exitCode' = exitCode
  /\ UNCHANGED <<script, args, creds, output, details, fsOut, fsErr,
                 logsData, metadata>>

\* get_system_logs and the JSON document of the minimal script
MinMain ==
  /\ script = "minimal"
  /\ pc = "min_logs"
  /\ \E sl \in LogTexts \cup {None} :
       /\ logsData' = [NoLogs EXCEPT !.system_logs = sl]
       /\ trace' = trace
            \o run_command(<<"autosyslog -j ">> \o job
                             \o (IF RunTruthy(args.run)
                                 THEN <<" -r ">> \o args.run ELSE <<>>), sl)
            \o <<Out("json", "-", <<job, args.run>>)>>
  /\ pc' = "exit"
  /\ exitCode' = 0
  /\ UNCHANGED <<script, args, job, creds, output, details, fsOut, fsErr,
                 metadata>>

(***************************************************************************)
(* Specifications.                                                         *)
(***************************************************************************)
PathAlphabet == {SO, SE, JD, SP, NL, "a", "/"}
StatusAlphabet == {ST, SP, NL, "a", "-"}
MetaAlphabet == {"machine:", "condition:", SP, NL, "a"}

\* Spec: every script, every command line, short reports
GetJobDetails == GetJobDetailsOn(TextsOver(PathAlphabet, MaxOut))
SysGetLogs == SysGetLogsOn(TextsOver(MetaAlphabet, MaxOut))

Next ==
  \/ PlainMain
  \/ AuthParse
  \/ AuthCreds
  \/ GetJobDetails
  \/ HandleStdout
  \/ HandleStderr
  \/ SysParse
  \/ SysGetLogs
  \/ SysReport
  \/ MinParse
  \/ MinMain

Spec == Init /\ [][Next]_vars

\* SpecParse: get_job_details on longer reports, no credentials
ParseJobs == {<<>>, J, <<"/", "j">>}

InitParse ==
  \/ \E j \in ParseJobs : Start("plain", [NoArgs EXCEPT !.argv = <<j>>])
  \/ \E j \in ParseJobs \ {<<>>} : Start("auth", [NoArgs EXCEPT !.job_name = j])

GetJobDetailsParse ==
  GetJobDetailsOn(TextsOver(PathAlphabet, MaxLen)
                  \cup TextsOver(StatusAlphabet, MaxLen))

NextParse ==
  \/ PlainMain
  \/ AuthParse
  \/ AuthCreds
  \/ GetJobDetailsParse

SpecParse == InitParse /\ [][NextParse]_vars

\* SpecLogs: get_job_details and get_job_logs, one job name
InitLogs ==
  \/ Start("plain", [NoArgs EXCEPT !.argv = <<J>>])
  \/ \E u \in {None, <<"u">>} :
       Start("auth", [NoArgs EXCEPT !.job_name = J, !.username = u,
                                    !.password = u, !.instance = u])

GetJobDetailsLogs == GetJobDetailsOn(TextsOver(PathAlphabet, MaxLogLen))

NextLogs ==
  \/ PlainMain
  \/ AuthParse
  \/ AuthCreds
  \/ GetJobDetailsLogs
  \/ HandleStdout
  \/ HandleStderr

SpecLogs == InitLogs /\ [][NextLogs]_vars

\* SpecMeta: the system script on longer job-info texts
InitMeta ==
  \E f \in {"json", "text"} :
    Start("system", [NoArgs EXCEPT !.job_name = J, !.format = f])

SysGetLogsMeta == SysGetLogsOn(TextsOver(MetaAlphabet, MaxMeta))

NextMeta ==
  \/ SysParse
  \/ SysGetLogsMeta
  \/ SysReport

SpecMeta == InitMeta /\ [][NextMeta]_vars

(***************************************************************************)
(* What the properties speak of.                                           *)
(***************************************************************************)
Streams == {"stdout", "stderr"}

\* the invocations of the autosyslog fallback that carry a stream flag
FallbackCalls(flag) ==
  {i \in 1..Len(trace) :
     /\ trace[i].kind = "call"
     /\ trace[i].tag = "autosyslog"
     /\ trace[i].data[4] = flag}

AnyCall == \E i \in 1..Len(trace) : trace[i].kind = "call"

Printed(tag, s) ==
  \E i \in 1..Len(trace) :
    trace[i].kind = "print" /\ trace[i].tag = tag /\ trace[i].stream = s

\* a part of a report: the header or a stream section of get_job_logs, the
\* JSON document or the text report of the system scripts
ReportPrinted ==
  \E i \in 1..Len(trace) :
    /\ trace[i].kind = "print"
    /\ trace[i].tag \in {"header", "section", "not_available", "content",
                         "json", "text_report"}

\* get_job_details has returned a record
Produced == details # NoDetails

\* the autorep command of get_job_details exited non-zero
AutorepNonZero ==
  script \in {"plain", "auth"} /\ Printed("error_retrieving", "-")

\* the autorep -q command of get_system_logs exited non-zero
SysAutorepNonZero ==
  script = "system" /\ pc \in {"sys_report", "exit"} /\ job # None
  /\ logsData.job_info = None

HasLabel(text, label) == Occurrences(text, label) # {}

\* the value written after the first occurrence of a label, on the label's
\* own line: blanks skipped, then the characters up to the next white space
LineValue(text, label) ==
  LET i == Min(Occurrences(text, label))
      k == RunEnd(text, i + 1, {SP})
  IN  SubSeq(text, k, RunEndNot(text, k, Space) - 1)

PathOf(s) == IF s = "stdout" THEN details.std_out_file ELSE details.std_err_file
LabelOf(s) == IF s = "stdout" THEN SO ELSE SE
SuffixOf(s) == IF s = "stdout" THEN <<".out">> ELSE <<".err">>
FsOf(s) == IF s = "stdout" THEN fsOut ELSE fsErr

(***************************************************************************)
(* C1.  As stated: in every script, when the primary autorep command exits *)
(* non-zero the run ends with exit code 1 and no part of a report (header, *)
(* stream section, JSON document) is printed.                              *)
(***************************************************************************)
C1_EveryScriptAborts ==
  (AutorepNonZero \/ SysAutorepNonZero) =>
    /\ ~ReportPrinted
    /\ pc = "exit" => exitCode = 1

\* C1, amended: autosys-logs.py and the authenticated script end with exit
\* code 1 and print no part of a report when autorep exits non-zero;
\* autosys-system-logs.py goes on with a null job_info, prints its report
\* with an empty metadata mapping and ends with exit code 0.
C1_LogScriptsAbort ==
  /\ AutorepNonZero => pc = "exit" /\ exitCode = 1 /\ ~ReportPrinted
  /\ (SysAutorepNonZero /\ pc = "exit") =>
       exitCode = 0 /\ ReportPrinted /\ metadata = NoMetadata

C1_Witness ==
  AutorepNonZero /\ pc = "exit" /\ script = "auth" /\ Truthy(creds.password)

NoPathLabels(text) == \A l \in {SO, SE, JD} : ~HasLabel(text, l)

\* C3: no path label in the report => both paths None, both streams "Not
\* available", no autosyslog call
C3_NoLabelsNotAvailable ==
  (Produced /\ NoPathLabels(output)) =>
    /\ details.std_out_file = None
    /\ details.std_err_file = None
    /\ \A i \in 1..Len(trace) :
         ~(trace[i].kind = "call" /\ trace[i].tag = "autosyslog")
    /\ pc = "exit" =>
         Printed("not_available", "stdout") /\ Printed("not_available", "stderr")

C3_Witness ==
  /\ Produced /\ NoPathLabels(output) /\ Len(output) = MaxLogLen
  /\ pc = "exit"
  /\ Printed("not_available", "stdout") /\ Printed("not_available", "stderr")

(***************************************************************************)
(* C4.  As stated: with a job_dir value D and no explicit file label, the  *)
(* paths are D/<job_name>.out and D/<job_name>.err; with one explicit      *)
(* label missing only that path is derived and the explicit one is kept.   *)
(***************************************************************************)
HasDir(text) == HasLabel(text, JD) /\ LineValue(text, JD) # <<>>

HasExplicit(text, s) ==
  HasLabel(text, LabelOf(s)) /\ LineValue(text, LabelOf(s)) # <<>>

\* C4, as stated: the derived path is D, a slash, the job name, the suffix
C4_SlashJoined ==
  (Produced /\ HasDir(output)) =>
    \A s \in Streams :
      /\ ~HasLabel(output, LabelOf(s)) =>
           PathOf(s) = LineValue(output, JD) \o <<"/">> \o job \o SuffixOf(s)
      /\ HasExplicit(output, s) => PathOf(s) = LineValue(output, LabelOf(s))

\* os.path.join, spelled out case by case
JoinedPath(D, file) ==
  CASE file[1] = "/" -> file
    [] file[1] # "/" /\ D[Len(D)] = "/" -> D \o file
    [] OTHER -> D \o <<"/">> \o file

\* C4, amended: when the first job_dir: label has a non-empty value D on
\* its line, a stream whose own label is absent gets os.path.join(D,
\* <job_name>.out / .err): D/<job_name>.out when D does not end in "/" and
\* job_name does not begin with "/", D<job_name>.out when D ends in "/",
\* <job_name>.out alone when job_name begins with "/"; a stream whose own
\* label has a non-empty value on its line keeps that value.
C4_PathJoined ==
  (Produced /\ HasDir(output)) =>
    \A s \in Streams :
      /\ ~HasLabel(output, LabelOf(s)) =>
           PathOf(s) = JoinedPath(LineValue(output, JD), job \o SuffixOf(s))
      /\ HasExplicit(output, s) => PathOf(s) = LineValue(output, LabelOf(s))

C4_Witness ==
  /\ Produced /\ HasDir(output)
  /\ HasExplicit(output, "stdout") /\ ~HasLabel(output, SE)
  /\ LineValue(output, JD) = <<"a">>
  /\ job = J
  /\ details.std_out_file = <<"/">>
  /\ details.std_err_file = <<"a", "/", "j", ".err">>

(***************************************************************************)
(* C5.  As stated, for the runs that get past parse_arguments: the         *)
(* password prompt is issued exactly once in a run that is given a         *)
(* username and no password, never when a password is given and never      *)
(* without a username; and before any external command.                    *)
(***************************************************************************)
PasswordPrompts ==
  {i \in 1..Len(trace) : trace[i].kind = "prompt" /\ trace[i].tag = "password"}

PromptsBeforeCalls ==
  \A i \in PasswordPrompts :
    \A k \in 1..Len(trace) : trace[k].kind = "call" => i < k

C6_MetadataOwnValues ==
  (script = "system" /\ pc = "exit" /\ Truthy(logsData.job_info)) =>
    /\ DOMAIN metadata =
         {a \in attributes : HasLabel(logsData.job_info, AttrLabel[a])}
    /\ \A a \in DOMAIN metadata :
         metadata[a] = LineValue(logsData.job_info, AttrLabel[a])

(***************************************************************************)
(* C7.  When the report holds "Status/Event: X", status is the whole value *)
(* X in both scripts; when it holds no Status/Event label, status is None. *)
(***************************************************************************)
\* the places where "Status/Event: " is followed by a value that begins
\* with a word character
StatusFields(text) ==
  {i \in Occurrences(text, ST) :
     /\ i + 2 <= Len(text) /\ text[i + 1] = SP
     /\ text[i + 2] \in WordChars}

\* C7: status is the whole value after "Status/Event: ", and None when the
\* label is absent
C7_WholeStatus ==
  Produced =>
    /\ StatusFields(output) # {} =>
         LET i == Min(StatusFields(output))
         IN  details.status = SubSeq(output, i + 2,
                                     RunEndNot(output, i + 2, Space) - 1)
    /\ ~HasLabel(output, ST) => details.status = None

(***************************************************************************)
(* C8.  The exit code is 0 when a run of the plain or the authenticated    *)
(* script completes, and 1 when the job name is missing from its command   *)
(* line, in which case the usage is reported and no command is invoked.    *)
(***************************************************************************)
JobNameMissing ==
  \/ script = "plain" /\ args.argv = <<>>
  \/ script = "auth" /\ args.job_name = None /\ args.job_name_positional = None

\* C8: exit code 0 after a completed run, 1 with the usage and no command
\* when the job name is missing
C8_ExitCodes ==
  (script \in {"plain", "auth"} /\ pc = "exit") =>
    /\ Printed("not_available", "stderr") \/ Printed("section", "stderr") =>
         exitCode = 0
    /\ JobNameMissing =>
         exitCode = 1 /\ Printed("usage", "-") /\ ~AnyCall

(***************************************************************************)
(* C9.  Every record get_job_details produces has a job_name that is set   *)
(* and not empty.                                                          *)
(***************************************************************************)
C9_JobNameNonEmpty == Produced => Truthy(details.job_name)

(***************************************************************************)
(* C10.  For a stream with a resolved path, the fallback command of that   *)
(* stream is invoked when the path does not exist and also when the path   *)
(* exists and reading it fails.                                            *)
(***************************************************************************)
C10_FallbackOnReadError ==
  (Produced /\ pc = "exit") =>
    \A s \in Streams :
      (Truthy(PathOf(s)) /\ FsOf(s) \in {"missing", "unreadable"}) =>
        FallbackCalls(StreamFlag(s)) # {}

(***************************************************************************)
(* C11.  A label that is present with an empty captured value is treated   *)
(* like an absent label: an empty std_out_file / std_err_file capture      *)
(* falls through to the job_dir derivation, an empty job_dir capture       *)
(* derives no path, an empty attribute capture adds no metadata entry.     *)
(***************************************************************************)
\* the label is in the text and nothing but white space follows its first
\* occurrence, up to the end of the text: the only texts on which the
\* pattern matches with an empty group
EmptyValue(text, label) ==
  /\ HasLabel(text, label)
  /\ RunEnd(text, Min(Occurrences(text, label)) + 1, Space) > Len(text)

\* the stream has no explicit path: its label is absent or has no value
NoExplicit(text, s) ==
  ~HasLabel(text, LabelOf(s)) \/ EmptyValue(text, LabelOf(s))

\* an empty file capture falls through to the job_dir derivation
C11_EmptyFileFallsThrough ==
  (Produced /\ HasDir(output)) =>
    \A s \in Streams :
      EmptyValue(output, LabelOf(s)) =>
        PathOf(s) = JoinedPath(LineValue(output, JD), job \o SuffixOf(s))

\* an empty job_dir capture derives no path
C11_EmptyDirDerivesNothing ==
  (Produced /\ Truthy(job) /\ EmptyValue(output, JD)) =>
    \A s \in Streams : NoExplicit(output, s) => PathOf(s) = None

\* an empty attribute capture adds no entry
C11_EmptyAttributeNoEntry ==
  (script = "system" /\ pc = "exit" /\ Truthy(logsData.job_info)) =>
    \A a \in attributes :
      EmptyValue(logsData.job_info, AttrLabel[a]) => a \notin DOMAIN metadata

\* C11: a present label with an empty capture is treated like an absent
\* one, in the file fields, in job_dir and in the metadata mapping
C11_EmptyCaptureIsAbsent ==
  /\ C11_EmptyFileFallsThrough
  /\ C11_EmptyDirDerivesNothing
  /\ C11_EmptyAttributeNoEntry

(***************************************************************************)
(* C12.  No extraction crosses a line boundary: the value extracted for a  *)
(* label (std_out_file, std_err_file, job_dir or a metadata attribute) is  *)
(* made of characters of the label's own line only, so a label with        *)
(* nothing after it on its line never yields text of a following line.     *)
(***************************************************************************)
\* the paths a stream may get from job_dir when only the characters of the
\* job_dir line are used: none, or the join of that line's value
DerivedOnLine(text, s) ==
  {None} \cup (IF HasLabel(text, JD)
               THEN {PathJoin(LineValue(text, JD), job \o SuffixOf(s))}
               ELSE {})

\* the paths of get_job_details hold characters of their labels' lines only
C12_PathsFromOwnLine ==
  (Produced /\ Truthy(job)) =>
    \A s \in Streams :
      IF HasExplicit(output, s)
      THEN PathOf(s) = LineValue(output, LabelOf(s))
      ELSE PathOf(s) \in DerivedOnLine(output, s)

\* the metadata values hold characters of their labels' lines only
C12_MetadataFromOwnLine ==
  (script = "system" /\ pc = "exit") =>
    \A a \in DOMAIN metadata :
      metadata[a] = LineValue(logsData.job_info, AttrLabel[a])

\* C12: every extracted value is made of characters that stand on the line
\* of its label
C12_NoCrossLineCapture ==
  /\ C12_PathsFromOwnLine
  /\ C12_MetadataFromOwnLine

(***************************************************************************)
(* C13.  get_job_logs handles stdout first and stderr second, and the      *)
(* stderr stream is handled after the stdout stream whatever the stdout    *)
(* outcome was (file read, read error, fallback success, fallback          *)
(* failure): a failure of the stdout fallback is reported and does not     *)
(* keep the stderr section from being handled.                             *)
(***************************************************************************)
\* the block of a stream has been entered: its section title or its "Not
\* available" line is printed
Handled(s) == Printed("section", s) \/ Printed("not_available", s)

StreamEvents(s) == {i \in 1..Len(trace) : trace[i].stream = s}

\* the fallback command of a stream was run and failed, and the failure
\* was reported
FallbackFailureReported(s) ==
  Printed("error_running_autosyslog", s) \/ Printed("error_accessing", s)

\* every fallback call is directly followed by what it printed or by the
\* report of its failure
FallbackAnswered ==
  \A i \in FallbackCalls(<<"-o">>) \cup FallbackCalls(<<"-e">>) :
    /\ i < Len(trace)
    /\ trace[i + 1].stream = trace[i].stream
    /\ trace[i + 1].tag \in {"fallback_output", "error_running_autosyslog",
                             "error_accessing"}

\* C13: once get_job_logs has printed its header the stdout block is
\* handled; the run then goes on to the stderr block, and ends (with exit
\* code 0) only after the stderr block is handled; everything of the stdout
\* block precedes everything of the stderr block; a fallback that fails is
\* reported
C13_StderrAfterStdout ==
  (script \in {"plain", "auth"} /\ Printed("header", "-")) =>
    /\ Handled("stdout")
    /\ pc \in {"logs_err", "exit"}
    /\ pc = "logs_err" => StreamEvents("stderr") = {}
    /\ pc = "exit" => Handled("stderr") /\ exitCode = 0
    /\ \A i \in StreamEvents("stdout") :
         \A k \in StreamEvents("stderr") : i < k
    /\ FallbackAnswered

\* the stdout fallback failed and was reported, and the stderr file was
\* read afterwards
C13_Witness ==
  /\ script = "auth" /\ pc = "exit"
  /\ fsOut = "missing" /\ Printed("error_running_autosyslog", "stdout")
  /\ fsErr = "readable" /\ Printed("content", "stderr")
  /\ Cardinality(FallbackCalls(<<"-o">>)) = 1

====
